---------------------------- MODULE Spec2Model ----------------------------
(***************************************************************************)
(* Block transaction processor of multi-geth (package core):               *)
(*   StateProcessor.Process, ApplyTransaction, applyTransaction (native    *)
(*   applier), precheckSputnikVMTransaction and applySputnikTransaction    *)
(*   (external-VM adapter).                                                *)
(*                                                                         *)
(* uint64 values are modelled modulo Uint64Modulus (a scaled-down word),   *)
(* big.Int values as unbounded integers.  Hashes are modelled as the       *)
(* tuple of what is hashed (collision-free).                               *)
(***************************************************************************)
EXTENDS Integers, Sequences, FiniteSets, TLC

VARIABLES
    pc,        \* position of Process: "start", "loop", "done"; of a lone call: "apply", "applied";
               \* of the adapter: "svm_precheck" ... "svm_returned", "svm_panicked"
    config,    \* p.config resolved at header.Number, and cfg.EVMInterpreter
    header,    \* block.Header()
    statedb,   \* *state.StateDB
    usedGas,   \* *usedGas (uint64)
    gp,        \* *GasPool (uint64)
    txs,       \* block.Transactions() ranged over so far
    receipts,  \* local receipts of Process
    allLogs,   \* local allLogs of Process
    ret,       \* what Process returned
    applied,   \* per ranged transaction: the inputs and the result of ApplyTransaction
    trace,     \* calls made on the state database and on the consensus engine
    pin,       \* inputs of a lone call of ApplyTransaction or of the adapter
    pout,      \* its result
    vm         \* the external VM and its patch, as the adapter sees them

vars == <<pc, config, header, statedb, usedGas, gp, txs, receipts, allLogs,
          ret, applied, trace, pin, pout, vm>>

---------------------------------------------------------------------------
(* Bounds of the model *)

\* 2^64 scaled down: uint64 arithmetic is arithmetic modulo Uint64Modulus.
Uint64Modulus == 8
\* Longest block ranged over.
MaxTxs == 2
\* Balance of the sender in the pre-state.
SenderBalance == 3
\* Balance of the DAO account in the pre-state.
DaoBalance == 1
\* header.Number of the processed block.
HeaderNumber == 1

\* 2^256 scaled down: storage keys are words modulo HashModulus.
HashModulus == 2
\* Longest list vm.AccountChanges() returns.
MaxChanges == 2

MaxUint64 == Uint64Modulus - 1

\* Header validation (outside Process) caps header.GasLimit at 2^63-1.
MaxHeaderGasLimit == (Uint64Modulus \div 2) - 1

U64(x) == x % Uint64Modulus

---------------------------------------------------------------------------
(* Data *)

Addr == {"sender", "coinbase", "dao", "refund", "contract"}

NoAddr == "nil"

\* Error values; "nil" is no error.
NoErr == "nil"
ErrInvalidSig == "invalid_signature"
ErrNonceTooHigh == "nonce_too_high"
ErrNonceTooLow == "nonce_too_low"
errInsufficientBalanceForGas == "insufficient_balance_for_gas"
ErrGasLimitReached == "gas_limit_reached"
ErrVMAbort == "vm_abort"

\* Transactions a block may carry.  sigOk = FALSE: the signer cannot recover the sender.
TxGasValues == {1, 2, MaxUint64}

TxsAll ==
    [from : {"sender"}, nonce : 0..MaxTxs, gasPrice : {0, 1}, gas : TxGasValues,
     to : {NoAddr, "coinbase"}, sigOk : BOOLEAN]

\* The transactions the blocks of Process are made of: calls of every gas limit and
\* price, one creation per nonce, one transaction with a bad signature.
Txs ==
    { tx \in TxsAll :
        \/ tx.sigOk /\ tx.to = "coinbase"
        \/ tx.sigOk /\ tx.to = NoAddr /\ tx.gasPrice = 1 /\ tx.gas = 2
        \/ ~tx.sigOk /\ tx.to = "coinbase" /\ tx.nonce = 0 /\ tx.gasPrice = 0 /\ tx.gas = 1 }

\* tx.Hash()
TxHash(tx) == <<"tx", tx.from, tx.nonce, tx.gasPrice, tx.gas, tx.to, tx.sigOk>>

\* block.Hash()
BlockHash == <<"block">>
ZeroHash == <<>>

\* crypto.CreateAddress(b, nonce)
CreateAddress(b, nonce) == <<"create", b, nonce>>
ZeroAddress == <<>>

---------------------------------------------------------------------------
(* The state database (§6 StateDB contract) *)

StorageKeys == 0..(HashModulus - 1)
\* common.BigToHash: the low 32 bytes of the number.
BigToHash(x) == x % HashModulus
EmptyStorage == [k \in StorageKeys |-> 0]
EmptyCode == ""

NoAccount ==
    [exists |-> FALSE, nonce |-> 0, balance |-> 0, code |-> EmptyCode,
     storage |-> EmptyStorage, suicided |-> FALSE]

NewAccount == [NoAccount EXCEPT !.exists = TRUE]

\* getOrNewStateObject: the account, created when it does not exist; marks it dirty.
Touch(st, a) ==
    [st EXCEPT !.acct[a] = IF @.exists THEN @ ELSE NewAccount,
               !.dirty = @ \cup {a}]

Exist(st, a) == st.acct[a].exists
GetNonce(st, a) == st.acct[a].nonce
GetBalance(st, a) == st.acct[a].balance
GetCode(st, a) == st.acct[a].code
GetState(st, a, k) == st.acct[a].storage[k]

SetNonce(st, a, n) == [Touch(st, a) EXCEPT !.acct[a].nonce = n]
SetBalance(st, a, b) == [Touch(st, a) EXCEPT !.acct[a].balance = b]
AddBalance(st, a, amt) == [Touch(st, a) EXCEPT !.acct[a].balance = @ + amt]
SubBalance(st, a, amt) == [Touch(st, a) EXCEPT !.acct[a].balance = @ - amt]
SetCode(st, a, c) == [Touch(st, a) EXCEPT !.acct[a].code = c]
SetState(st, a, k, v) == [Touch(st, a) EXCEPT !.acct[a].storage[k] = v]

\* suicide(addr): marks the account suicided and clears its balance; no effect on a missing account.
Suicide(st, a) ==
    IF ~st.acct[a].exists THEN st
    ELSE [st EXCEPT !.acct[a].suicided = TRUE, !.acct[a].balance = 0,
                    !.dirty = @ \cup {a}]

IsEmptyAccount(ac) == ac.nonce = 0 /\ ac.balance = 0 /\ ac.code = EmptyCode

\* finalise(delete_empty): commits pending changes; suicided accounts, and with
\* delete_empty the touched empty ones, are deleted.
Finalise(st, deleteEmpty) ==
    [st EXCEPT
        !.acct = [a \in Addr |->
                     IF a \in st.dirty /\ st.acct[a].exists
                        /\ (st.acct[a].suicided \/ (deleteEmpty /\ IsEmptyAccount(st.acct[a])))
                     THEN NoAccount ELSE st.acct[a]],
        !.dirty = {}]

\* The 32-byte root of a state: the hash of its accounts.
RootOf(st) == <<"root", st.acct>>

\* intermediate_root(delete_empty): finalise, then the root.  The state it leaves:
IntermediateRootState(st, deleteEmpty) == Finalise(st, deleteEmpty)
\* and the root it returns:
IntermediateRoot(st, deleteEmpty) == RootOf(Finalise(st, deleteEmpty))

\* prepare(tx_hash, block_hash, tx_index)
Prepare(st, thash, bhash, ti) ==
    [st EXCEPT !.thash = thash, !.bhash = bhash, !.txIndex = ti]

\* add_log(log): the log gets the scope set by prepare and the next log index.
AddLog(st, log) ==
    [st EXCEPT
        !.logs = Append(@, [Address |-> log.Address, Topics |-> log.Topics,
                            Data |-> log.Data, BlockNumber |-> log.BlockNumber,
                            TxHash |-> st.thash, BlockHash |-> st.bhash,
                            TxIndex |-> st.txIndex, Index |-> st.logSize]),
        !.logSize = @ + 1]

\* logs_for(tx_hash)
GetLogs(st, hash) == SelectSeq(st.logs, LAMBDA l : l.TxHash = hash)

StateBlockHash(st) == st.bhash
StateTxIndex(st) == st.txIndex

\* The pre-state of the block.
InitStateDB ==
    [acct |-> [a \in Addr |->
                 CASE a = "sender" -> [NewAccount EXCEPT !.balance = SenderBalance]
                   [] a = "dao" -> [NewAccount EXCEPT !.balance = DaoBalance]
                   [] OTHER -> NoAccount],
     dirty |-> {},
     logs |-> <<>>, logSize |-> 0,
     thash |-> ZeroHash, bhash |-> ZeroHash, txIndex |-> 0]

\* misc.ApplyDAOHardFork: moves the balance of every drained account to the refund contract.
DAODrainList == <<"dao">>
DAORefundContract == "refund"

RECURSIVE DrainInto(_, _)
DrainInto(st, list) ==
    IF list = <<>> THEN st
    ELSE LET a == Head(list)
             s1 == AddBalance(st, DAORefundContract, GetBalance(st, a))
         IN DrainInto(SetBalance(s1, a, 0), Tail(list))

ApplyDAOHardFork(st) ==
    DrainInto(IF Exist(st, DAORefundContract) THEN st ELSE Touch(st, DAORefundContract),
              DAODrainList)

---------------------------------------------------------------------------
(* The interpreters' execution results *)

\* The log an execution may emit.
VMLog == [Address |-> "coinbase", Topics |-> <<"topic">>, Data |-> "data"]
VMLog2 == [Address |-> "contract", Topics |-> <<"topic2", "topic3">>, Data |-> "data2"]

\* What executing tx against st may report: gas used (at most the transaction's gas
\* limit), the failed flag, the emitted logs (none when the execution failed), and the
\* account changes: the sender with its nonce advanced and the gas paid, the fee credited.
ExecResult(st, tx, g, failed, logs) ==
    [usedGas |-> g, failed |-> failed, logs |-> logs,
     changes |->
        << [typ |-> "full", address |-> tx.from, nonce |-> tx.nonce + 1,
            balance |-> GetBalance(st, tx.from) - g * tx.gasPrice,
            code |-> GetCode(st, tx.from), storage |-> <<>>],
           [typ |-> "increase_balance", address |-> "coinbase",
            amount |-> g * tx.gasPrice] >>,
     abort |-> FALSE]

ExecResults(st, tx) ==
    { ExecResult(st, tx, tx.gas, fl[1], fl[2]) :
        fl \in {<<FALSE, <<>>>>, <<FALSE, <<VMLog>>>>, <<TRUE, <<>>>>} }
    \cup
    { ExecResult(st, tx, 1, FALSE, <<>>), ExecResult(st, tx, 1, FALSE, <<VMLog2, VMLog>>) }

\* Native interpreter only: a non-revert abort, surfaced as an error.
AbortResult ==
    [usedGas |-> 0, failed |-> FALSE, logs |-> <<>>, changes |-> <<>>, abort |-> TRUE]

\* What the interpreter selected by cfg may report for tx.
Executions(cfg, st, tx) ==
    ExecResults(st, tx) \cup (IF cfg.EVMInterpreter = "svm" THEN {} ELSE {AbortResult})

\* The result recorded for a transaction that was rejected before any execution.
NotExecuted(st, tx) == ExecResult(st, tx, tx.gas, FALSE, <<>>)

NilReceipt == [nil |-> TRUE]

\* tx.AsMessage(signer): the error of the sender recovery.
AsMessageErr(tx) == IF tx.sigOk THEN NoErr ELSE ErrInvalidSig

\* types.NewReceipt(root, failed, cumulativeGasUsed): the other fields are zero values.
NewReceipt(root, failed, cumulativeGasUsed) ==
    [nil |-> FALSE, PostState |-> root, Failed |-> failed,
     CumulativeGasUsed |-> cumulativeGasUsed,
     TxHash |-> ZeroHash, ContractAddress |-> ZeroAddress, Logs |-> <<>>,
     Bloom |-> {}, GasUsed |-> 0,
     BlockHash |-> ZeroHash, BlockNumber |-> <<>>, TransactionIndex |-> 0]

\* types.CreateBloom: the filter holds the address and every topic of each log.
CreateBloom(logs) ==
    UNION { {logs[i].Address} \cup {logs[i].Topics[j] : j \in 1..Len(logs[i].Topics)} :
            i \in 1..Len(logs) }

\* Faulty variant: the logs are added last to first.
RECURSIVE AddLogsLastFirst(_, _, _)
AddLogsLastFirst(st, logs, number) ==
    IF logs = <<>> THEN st
    ELSE LET l == logs[Len(logs)]
         IN  AddLogsLastFirst(AddLog(st, [Address |-> l.Address, Topics |-> l.Topics,
                                          Data |-> l.Data, BlockNumber |-> number]),
                              SubSeq(logs, 1, Len(logs) - 1), number)

\* part_000:315-327: each log of vm.Logs(), in order, with the header's block number.
RECURSIVE AddLogs(_, _, _)
AddLogs(st, logs, number) ==
    IF logs = <<>> THEN st
    ELSE AddLogs(AddLog(st, [Address |-> Head(logs).Address, Topics |-> Head(logs).Topics,
                             Data |-> Head(logs).Data, BlockNumber |-> number]),
                 Tail(logs), number)

---------------------------------------------------------------------------
(* The native applier *)

\* What an applier returns, with the state, counter and pool it leaves behind;
\* applier: the function that ran; calls: the finalisation calls it made;
\* ranVM: an interpreter or VM was run.
ApplierOut(applier, receipt, gas, err, st, used, pool, calls, ranVM) ==
    [applier |-> applier, receipt |-> receipt, gas |-> gas, err |-> err, statedb |-> st,
     usedGas |-> used, gp |-> pool, calls |-> calls, ranVM |-> ranVM]

\* ApplyMessage (§4.2 step 3, §7): checks the nonce, buys the gas from the sender and
\* from the pool, runs the interpreter, refunds what is left, pays the coinbase.
ApplyMessage(st, hdr, tx, pool, res) ==
    LET from == tx.from
        mgval == tx.gas * tx.gasPrice
        fail(e, s, g) == [gas |-> 0, failed |-> FALSE, err |-> e, statedb |-> s, gp |-> g,
                          ranVM |-> FALSE]
    IN  IF GetNonce(st, from) < tx.nonce THEN fail(ErrNonceTooHigh, st, pool)
        ELSE IF GetNonce(st, from) > tx.nonce THEN fail(ErrNonceTooLow, st, pool)
        ELSE IF GetBalance(st, from) < mgval THEN fail(errInsufficientBalanceForGas, st, pool)
        ELSE IF pool < tx.gas THEN fail(ErrGasLimitReached, st, pool)
        ELSE LET s1 == SubBalance(st, from, mgval)
                 g1 == pool - tx.gas
             IN  IF res.abort
                 THEN [fail(ErrVMAbort, s1, g1) EXCEPT !.ranVM = TRUE]
                 ELSE LET s2 == SetNonce(s1, from, U64(tx.nonce + 1))
                          s3 == AddLogs(s2, res.logs, hdr.Number)
                          left == tx.gas - res.usedGas
                          s4 == AddBalance(s3, from, left * tx.gasPrice)
                          s5 == AddBalance(s4, hdr.Coinbase, res.usedGas * tx.gasPrice)
                      IN  [gas |-> res.usedGas, failed |-> res.failed, err |-> NoErr,
                           statedb |-> s5, gp |-> g1 + left, ranVM |-> TRUE]

\* part_000:113-119: finalise, or the intermediate root, by the EIP-658 rule.
NativeFinalisation(cfg, st) ==
    IF cfg.IsEIP658F
    THEN [root |-> <<>>, statedb |-> Finalise(st, cfg.IsEIP161F),
          call |-> [op |-> "Finalise", deleteEmpty |-> cfg.IsEIP161F, root |-> <<>>]]
    ELSE [root |-> IntermediateRoot(st, cfg.IsEIP161F),
          statedb |-> IntermediateRootState(st, cfg.IsEIP161F),
          call |-> [op |-> "IntermediateRoot", deleteEmpty |-> cfg.IsEIP161F,
                    root |-> IntermediateRoot(st, cfg.IsEIP161F)]]

\* part_000:127-130: the creation address, from the origin and tx.Nonce().
NativeContractAddress(tx) ==
    IF tx.to = NoAddr THEN CreateAddress(tx.from, tx.nonce) ELSE ZeroAddress

\* part_000:98-139
applyTransaction(cfg, hdr, st, pool, used, tx, res) ==
    IF AsMessageErr(tx) # NoErr
    THEN ApplierOut("applyTransaction", NilReceipt, 0, AsMessageErr(tx), st, used, pool, <<>>, FALSE)
    ELSE LET m == ApplyMessage(st, hdr, tx, pool, res)
         IN  IF m.err # NoErr
             THEN ApplierOut("applyTransaction", NilReceipt, 0, m.err, m.statedb, used, m.gp, <<>>, m.ranVM)
             ELSE LET fin == NativeFinalisation(cfg, m.statedb)
                      gas == m.gas
                      used1 == U64(used + gas)
                      r0 == NewReceipt(fin.root, m.failed, used1)
                      logs == GetLogs(fin.statedb, TxHash(tx))
                      receipt == [r0 EXCEPT !.TxHash = TxHash(tx),
                                            !.GasUsed = gas,
                                            !.ContractAddress = NativeContractAddress(tx),
                                            !.Logs = logs,
                                            !.Bloom = CreateBloom(logs),
                                            !.BlockHash = StateBlockHash(fin.statedb),
                                            !.BlockNumber = <<hdr.Number>>,
                                            !.TransactionIndex = StateTxIndex(fin.statedb)]
                  IN  ApplierOut("applyTransaction", receipt, gas, m.err, fin.statedb, used1, m.gp,
                                 <<fin.call>>, TRUE)

---------------------------------------------------------------------------
(* The external-VM adapter *)

\* Faulty variant: a transaction that exactly fills the block is rejected.
precheckRejectsExactFit(st, hdr, tx, used) ==
    IF AsMessageErr(tx) # NoErr THEN AsMessageErr(tx)
    ELSE IF GetNonce(st, tx.from) < tx.nonce THEN ErrNonceTooHigh
    ELSE IF GetNonce(st, tx.from) > tx.nonce THEN ErrNonceTooLow
    ELSE IF GetBalance(st, tx.from) < tx.gas * tx.gasPrice THEN errInsufficientBalanceForGas
    ELSE IF U64(used + tx.gas) >= hdr.GasLimit THEN ErrGasLimitReached
    ELSE NoErr

\* part_000:141-171.  used + tx.gas is a uint64 sum.
precheckSputnikVMTransaction(st, hdr, tx, used) ==
    IF AsMessageErr(tx) # NoErr THEN AsMessageErr(tx)
    ELSE IF GetNonce(st, tx.from) < tx.nonce THEN ErrNonceTooHigh
    ELSE IF GetNonce(st, tx.from) > tx.nonce THEN ErrNonceTooLow
    ELSE IF GetBalance(st, tx.from) < tx.gas * tx.gasPrice THEN errInsufficientBalanceForGas
    ELSE IF U64(used + tx.gas) > hdr.GasLimit THEN ErrGasLimitReached
    ELSE NoErr

RECURSIVE SetStorage(_, _, _)
SetStorage(st, a, items) ==
    IF items = <<>> THEN st
    ELSE SetStorage(SetState(st, a, BigToHash(Head(items).Key), Head(items).Value),
                    a, Tail(items))

\* Faulty variant: decrease_balance stores the amount instead of subtracting it.
ApplyAccountChangeStoresAmount(st, account) ==
    CASE account.typ = "increase_balance" ->
            AddBalance(st, account.address, account.amount)
      [] account.typ = "decrease_balance" ->
            SetBalance(st, account.address, account.amount)
      [] account.typ = "removed" ->
            Suicide(st, account.address)
      [] account.typ \in {"full", "create"} ->
            SetStorage(
                SetCode(
                    SetNonce(
                        SetBalance(st, account.address, account.balance),
                        account.address, U64(account.nonce)),
                    account.address, account.code),
                account.address, account.storage)

\* Faulty variant: a create starts from an empty storage at the address.
ApplyAccountChangeCreateClears(st, account) ==
    CASE account.typ = "increase_balance" ->
            AddBalance(st, account.address, account.amount)
      [] account.typ = "decrease_balance" ->
            SetBalance(st, account.address,
                       GetBalance(st, account.address) - account.amount)
      [] account.typ = "removed" ->
            Suicide(st, account.address)
      [] account.typ \in {"full", "create"} ->
            SetStorage(
                SetCode(
                    SetNonce(
                        SetBalance(
                            IF account.typ = "create"
                            THEN [st EXCEPT !.acct[account.address].storage = EmptyStorage]
                            ELSE st,
                            account.address, account.balance),
                        account.address, U64(account.nonce)),
                    account.address, account.code),
                account.address, account.storage)

\* part_000:276-313: one account change applied to the state database.
ApplyAccountChange(st, account) ==
    CASE account.typ = "increase_balance" ->
            AddBalance(st, account.address, account.amount)
      [] account.typ = "decrease_balance" ->
            SetBalance(st, account.address,
                       GetBalance(st, account.address) - account.amount)
      [] account.typ = "removed" ->
            Suicide(st, account.address)
      [] account.typ \in {"full", "create"} ->
            SetStorage(
                SetCode(
                    SetNonce(
                        SetBalance(st, account.address, account.balance),
                        account.address, U64(account.nonce)),
                    account.address, account.code),
                account.address, account.storage)

\* part_000:275-314: the changes applied in list order.
RECURSIVE ApplyAccountChanges(_, _)
ApplyAccountChanges(st, changes) ==
    IF changes = <<>> THEN st
    ELSE ApplyAccountChanges(ApplyAccountChange(st, Head(changes)), Tail(changes))

\* Faulty variant: finalise is given the EIP-161 flag, as the native path gives it.
SputnikFinaliseByEIP161(cfg, st) ==
    IF cfg.IsEIP658F
    THEN [root |-> <<>>, statedb |-> Finalise(st, cfg.IsEIP161F),
          call |-> [op |-> "Finalise", deleteEmpty |-> cfg.IsEIP161F, root |-> <<>>]]
    ELSE [root |-> IntermediateRoot(st, cfg.IsEIP161F),
          statedb |-> IntermediateRootState(st, cfg.IsEIP161F),
          call |-> [op |-> "IntermediateRoot", deleteEmpty |-> cfg.IsEIP161F,
                    root |-> IntermediateRoot(st, cfg.IsEIP161F)]]

\* Faulty variant: the intermediate root is computed whatever the EIP-658 rule says.
SputnikAlwaysRoot(cfg, st) ==
    [root |-> IntermediateRoot(st, cfg.IsEIP161F),
     statedb |-> IntermediateRootState(st, cfg.IsEIP161F),
     call |-> [op |-> "IntermediateRoot", deleteEmpty |-> cfg.IsEIP161F,
               root |-> IntermediateRoot(st, cfg.IsEIP161F)]]

\* part_000:329-335: finalise(true), or the intermediate root, by the EIP-658 rule.
SputnikFinalisation(cfg, st) ==
    IF cfg.IsEIP658F
    THEN [root |-> <<>>, statedb |-> Finalise(st, TRUE),
          call |-> [op |-> "Finalise", deleteEmpty |-> TRUE, root |-> <<>>]]
    ELSE [root |-> IntermediateRoot(st, cfg.IsEIP161F),
          statedb |-> IntermediateRootState(st, cfg.IsEIP161F),
          call |-> [op |-> "IntermediateRoot", deleteEmpty |-> cfg.IsEIP161F,
                    root |-> IntermediateRoot(st, cfg.IsEIP161F)]]

\* Faulty variant: the creation address is derived from the nonce after the increment.
SputnikContractAddressPostNonce(tx) ==
    IF tx.to = NoAddr THEN CreateAddress(tx.from, tx.nonce + 1) ELSE ZeroAddress

\* part_000:345-348: the creation address, from msg.From() and tx.Nonce().
SputnikContractAddress(tx) ==
    IF tx.to = NoAddr THEN CreateAddress(tx.from, tx.nonce) ELSE ZeroAddress

\* Faulty variant: a failed execution is returned as an error.
SputnikReturnErrOnFailed(tx, res) == IF res.failed THEN ErrVMAbort ELSE AsMessageErr(tx)

\* part_000:202,358: the error returned after the VM ran is the one of tx.AsMessage.
SputnikReturnErr(tx, res) == AsMessageErr(tx)

\* part_000:341: the receipt's status is vm.Failed().
SputnikFailed(res) == res.failed

\* part_000:173-359
applySputnikTransaction(cfg, hdr, st, pool, used, tx, res) ==
    IF precheckSputnikVMTransaction(st, hdr, tx, used) # NoErr
    THEN ApplierOut("applySputnikTransaction", NilReceipt, 0, precheckSputnikVMTransaction(st, hdr, tx, used),
                    st, used, pool, <<>>, FALSE)
    ELSE IF AsMessageErr(tx) # NoErr
    THEN ApplierOut("applySputnikTransaction", NilReceipt, 0, AsMessageErr(tx), st, used, pool, <<>>, FALSE)
    ELSE LET s1 == ApplyAccountChanges(st, res.changes)
             s2 == AddLogs(s1, res.logs, hdr.Number)
             fin == SputnikFinalisation(cfg, s2)
             gas == U64(res.usedGas)
             used1 == U64(used + gas)
             r0 == NewReceipt(fin.root, SputnikFailed(res), used1)
             logs == GetLogs(fin.statedb, TxHash(tx))
             receipt == [r0 EXCEPT !.TxHash = TxHash(tx),
                                   !.GasUsed = gas,
                                   !.ContractAddress = SputnikContractAddress(tx),
                                   !.Logs = logs,
                                   !.Bloom = CreateBloom(logs)]
         IN  ApplierOut("applySputnikTransaction", receipt, gas, SputnikReturnErr(tx, res), fin.statedb, used1, pool,
                        <<fin.call>>, TRUE)

\* Faulty variant: every selector that is set selects the adapter.
ApplyTransactionAnySelector(cfg, hdr, st, pool, used, tx, res) ==
    IF cfg.EVMInterpreter # ""
    THEN applySputnikTransaction(cfg, hdr, st, pool, used, tx, res)
    ELSE applyTransaction(cfg, hdr, st, pool, used, tx, res)

\* part_000:90-95
ApplyTransaction(cfg, hdr, st, pool, used, tx, res) ==
    IF cfg.EVMInterpreter = "svm"
    THEN applySputnikTransaction(cfg, hdr, st, pool, used, tx, res)
    ELSE applyTransaction(cfg, hdr, st, pool, used, tx, res)

---------------------------------------------------------------------------
(* The external VM, as the adapter drives it (§4.3, §6 External VM contract) *)

\* asEthAddress, asSputnikAddress (part_000:180-200): byte-for-byte copies of 20 bytes.
asEthAddress(a) == a

\* GetHashFn(header, bc)(n): the hash of the ancestor n, zero outside the last 256 blocks.
GetHash(hdr, n) ==
    IF n < hdr.Number /\ n >= hdr.Number - 256 THEN <<"blockhash", n>> ELSE ZeroHash

\* What vm.Fire() may return.
Request(typ, address, key, number) ==
    [typ |-> typ, address |-> address, key |-> key, number |-> number]

RequestAddrs == {"dao", "coinbase"}

Requests ==
    {Request("none", NoAddr, 0, 0)}
    \cup {Request(t, a, 0, 0) : t \in {"account", "account_code"}, a \in RequestAddrs}
    \cup {Request("account_storage", a, k, 0) : a \in RequestAddrs, k \in StorageKeys}
    \cup {Request("blockhash", NoAddr, 0, n) : n \in {0, HeaderNumber, Uint64Modulus}}

NoRequest == Request("nil", NoAddr, 0, 0)

\* The account changes vm.AccountChanges() may list; "unknown" is a variant the adapter
\* has no case for.
Change(typ, address, amount, nonce, balance, code, storage) ==
    [typ |-> typ, address |-> address, amount |-> amount, nonce |-> nonce,
     balance |-> balance, code |-> code, storage |-> storage]

ChangeKinds ==
    { Change("increase_balance", "coinbase", 1, 0, 0, EmptyCode, <<>>),
      Change("decrease_balance", "sender", 1, 0, 0, EmptyCode, <<>>),
      Change("decrease_balance", "dao", DaoBalance + 1, 0, 0, EmptyCode, <<>>),
      Change("removed", "dao", 0, 0, 0, EmptyCode, <<>>),
      Change("full", "sender", 0, 1, 2, EmptyCode, <<[Key |-> 0, Value |-> 7]>>),
      Change("create", "contract", 0, 1, 0, "code", <<[Key |-> 1, Value |-> 5]>>),
      Change("create", "dao", 0, 1, 0, "code", <<[Key |-> 0, Value |-> 9]>>),
      Change("unknown", "sender", 0, 0, 0, EmptyCode, <<>>) }

RECURSIVE SeqsUpTo(_, _)
SeqsUpTo(S, n) ==
    IF n = 0 THEN {<<>>}
    ELSE SeqsUpTo(S, n - 1) \cup {Append(q, x) : q \in SeqsUpTo(S, n - 1), x \in S}

ChangeLists == SeqsUpTo(ChangeKinds, MaxChanges)

\* The logs vm.Logs() may list.
VMLogLists == {<<>>, <<VMLog>>, <<VMLog2, VMLog>>}

\* The VM instance and its patch: how many of each were allocated and released, whether
\* the instance was used after its release; whether fire and a commit were called,
\* whether fire returned `none`, whether fire or a commit was called after that; the
\* request of the last fire and the commit calls made for it; what the VM reported
\* after the loop.
NoVM ==
    [vmNew |-> 0, vmFree |-> 0, patchNew |-> 0, patchFree |-> 0, usedFreed |-> FALSE,
     fired |-> FALSE, committed |-> FALSE, sawNone |-> FALSE, lateCall |-> FALSE,
     pending |-> NoRequest, reply |-> <<>>,
     changes |-> <<>>, next |-> 1, logs |-> <<>>, usedGas |-> 0, failed |-> FALSE]

\* A method of the VM instance is called.
UseVM(v) == [v EXCEPT !.usedFreed = @ \/ v.vmFree > 0]

---------------------------------------------------------------------------
(* StateProcessor.Process *)

\* p.config at header.Number, with cfg.EVMInterpreter.
\* DAOForkBlock: <<>> is nil, <<n>> is the block number n.
Interpreters == {"svm", ""}

Configs ==
    [EVMInterpreter : Interpreters, IsEIP658F : BOOLEAN, IsEIP161F : BOOLEAN,
     DAOForkSupport : {TRUE}, DAOForkBlock : {<<>>}]
    \cup
    [EVMInterpreter : Interpreters, IsEIP658F : {TRUE}, IsEIP161F : {TRUE},
     DAOForkSupport : BOOLEAN, DAOForkBlock : {<<HeaderNumber>>}]
    \cup
    [EVMInterpreter : Interpreters, IsEIP658F : {TRUE}, IsEIP161F : {TRUE},
     DAOForkSupport : {TRUE}, DAOForkBlock : {<<HeaderNumber + 1>>}]

\* Validated headers: the gas limit is at most MaxHeaderGasLimit.
Headers ==
    [Number : {HeaderNumber}, Coinbase : {"coinbase"},
     GasLimit : {MaxHeaderGasLimit}]

NoReturn == [receipts |-> <<>>, logs |-> <<>>, usedGas |-> 0, err |-> NoErr]

Init ==
    /\ pc = "start"
    /\ config \in Configs
    /\ header \in Headers
    /\ statedb = InitStateDB
    /\ usedGas = 0
    /\ gp = 0
    /\ txs = <<>>
    /\ receipts = <<>>
    /\ allLogs = <<>>
    /\ ret = NoReturn
    /\ applied = <<>>
    /\ trace = <<>>
    /\ pin = <<>>
    /\ pout = NoErr
    /\ vm = NoVM

\* Faulty variant: the hook applies at the fork block whether or not the fork is supported.
IsDAOForkBlockUnsupported(cfg, hdr) ==
    cfg.DAOForkBlock # <<>> /\ cfg.DAOForkBlock = <<hdr.Number>>

\* part_000:67: the DAO hard-fork hook applies to this block.
IsDAOForkBlock(cfg, hdr) ==
    cfg.DAOForkSupport /\ cfg.DAOForkBlock # <<>> /\ cfg.DAOForkBlock = <<hdr.Number>>

\* Faulty variant: the gas counter is not a fresh local; it keeps the value an earlier
\* call of Process left in it.
ProcessBeginKeepsUsedGas ==
    /\ pc = "start"
    /\ receipts' = <<>>
    /\ allLogs' = <<>>
    /\ gp' = U64(0 + header.GasLimit)
    /\ IF IsDAOForkBlock(config, header)
       THEN /\ statedb' = ApplyDAOHardFork(statedb)
            /\ trace' = Append(trace, [op |-> "ApplyDAOHardFork"])
       ELSE UNCHANGED <<statedb, trace>>
    /\ pc' = "loop"
    /\ UNCHANGED <<config, header, usedGas, txs, ret, applied, pin, pout, vm>>

\* part_000:59-69: the locals, the gas pool, the DAO hook.
ProcessBegin ==
    /\ pc = "start"
    /\ receipts' = <<>>
    /\ usedGas' = 0
    /\ allLogs' = <<>>
    /\ gp' = U64(0 + header.GasLimit)
    /\ IF IsDAOForkBlock(config, header)
       THEN /\ statedb' = ApplyDAOHardFork(statedb)
            /\ trace' = Append(trace, [op |-> "ApplyDAOHardFork"])
       ELSE UNCHANGED <<statedb, trace>>
    /\ pc' = "loop"
    /\ UNCHANGED <<config, header, txs, ret, applied, pin, pout, vm>>

\* Faulty variant: the receipts, logs and gas gathered so far are returned with the error.
ProcessReturnPartial(rs, logs, used, err) ==
    [receipts |-> rs, logs |-> logs, usedGas |-> used, err |-> err]

\* part_000:74-76: the return on a failed transaction.
ProcessReturnError(rs, logs, used, err) ==
    [receipts |-> <<>>, logs |-> <<>>, usedGas |-> 0, err |-> err]

\* Faulty variant: the logs of the new receipt are put in front of the earlier ones.
PrependLogs(logs, receipt) == receipt.Logs \o logs

\* part_000:78: allLogs = append(allLogs, receipt.Logs...)
AppendLogs(logs, receipt) == logs \o receipt.Logs

\* part_000:83
ProcessReturn(rs, logs, used) ==
    [receipts |-> rs, logs |-> logs, usedGas |-> used, err |-> NoErr]

\* Faulty variant: the transaction index given to Prepare counts from one.
PrepareTxFromOne(st, tx, i) == Prepare(st, TxHash(tx), BlockHash, i + 1)

\* part_000:72: statedb.Prepare(tx.Hash(), block.Hash(), i), i the index of the range
\* over block.Transactions().
PrepareTx(st, tx, i) == Prepare(st, TxHash(tx), BlockHash, i)

\* Faulty variant: a failing transaction makes Process put the state database back to
\* the block's pre-state before it returns the error.
ProcessTxWithRollback(tx, res) ==
    \E out \in {ApplyTransaction(config, header, PrepareTx(statedb, tx, Len(txs)),
                                 gp, usedGas, tx, res)} :
        /\ (~out.ranVM) => res = NotExecuted(statedb, tx)
        /\ txs' = Append(txs, tx)
        /\ statedb' = IF out.err # NoErr THEN InitStateDB ELSE out.statedb
        /\ usedGas' = out.usedGas
        /\ gp' = out.gp
        /\ applied' = Append(applied,
               [tx |-> tx, res |-> res, usedGas |-> usedGas, gp |-> gp,
                pre |-> PrepareTx(statedb, tx, Len(txs)),
                err |-> out.err, ranVM |-> out.ranVM])
        /\ trace' = trace \o <<[op |-> "Prepare",
                                thash |-> PrepareTx(statedb, tx, Len(txs)).thash,
                                bhash |-> PrepareTx(statedb, tx, Len(txs)).bhash,
                                ti |-> PrepareTx(statedb, tx, Len(txs)).txIndex]>>
                         \o out.calls
        /\ IF out.err # NoErr
           THEN /\ ret' = ProcessReturnError(receipts, allLogs, out.usedGas, out.err)
                /\ pc' = "done"
                /\ UNCHANGED <<receipts, allLogs>>
           ELSE /\ receipts' = Append(receipts, out.receipt)
                /\ allLogs' = AppendLogs(allLogs, out.receipt)
                /\ pc' = "loop"
                /\ UNCHANGED ret
        /\ UNCHANGED <<config, header, pin, pout, vm>>

\* part_000:72-78: the body of the loop for the transaction tx, whose execution
\* reports res.
ProcessTxWith(tx, res) ==
    \E out \in {ApplyTransaction(config, header, PrepareTx(statedb, tx, Len(txs)),
                                 gp, usedGas, tx, res)} :
        /\ (~out.ranVM) => res = NotExecuted(statedb, tx)
        /\ txs' = Append(txs, tx)
        /\ statedb' = out.statedb
        /\ usedGas' = out.usedGas
        /\ gp' = out.gp
        /\ applied' = Append(applied,
               [tx |-> tx, res |-> res, usedGas |-> usedGas, gp |-> gp,
                pre |-> PrepareTx(statedb, tx, Len(txs)),
                err |-> out.err, ranVM |-> out.ranVM])
        /\ trace' = trace \o <<[op |-> "Prepare",
                                thash |-> PrepareTx(statedb, tx, Len(txs)).thash,
                                bhash |-> PrepareTx(statedb, tx, Len(txs)).bhash,
                                ti |-> PrepareTx(statedb, tx, Len(txs)).txIndex]>>
                         \o out.calls
        /\ IF out.err # NoErr
           THEN /\ ret' = ProcessReturnError(receipts, allLogs, out.usedGas, out.err)
                /\ pc' = "done"
                /\ UNCHANGED <<receipts, allLogs>>
           ELSE /\ receipts' = Append(receipts, out.receipt)
                /\ allLogs' = AppendLogs(allLogs, out.receipt)
                /\ pc' = "loop"
                /\ UNCHANGED ret
        /\ UNCHANGED <<config, header, pin, pout, vm>>

\* part_000:71-79: one iteration of the loop over block.Transactions(): tx is the
\* block's next transaction, res what its execution reports.
ProcessTx ==
    /\ pc = "loop"
    /\ Len(txs) < MaxTxs
    /\ \E tx \in Txs : \E res \in Executions(config, statedb, tx) :
          ProcessTxWith(tx, res)

\* Faulty variant: Process returns without calling the consensus engine.
ProcessReturnsUnfinalized ==
    /\ pc = "loop"
    /\ ret' = ProcessReturn(receipts, allLogs, usedGas)
    /\ pc' = "done"
    /\ UNCHANGED <<config, header, statedb, usedGas, gp, txs, receipts, allLogs,
                   applied, trace, pin, pout, vm>>

\* part_000:80-83: the block has no more transactions.
ProcessFinalize ==
    /\ pc = "loop"
    /\ trace' = Append(trace, [op |-> "engine.Finalize"])
    /\ ret' = ProcessReturn(receipts, allLogs, usedGas)
    /\ pc' = "done"
    /\ UNCHANGED <<config, header, statedb, usedGas, gp, txs, receipts, allLogs,
                   applied, pin, pout, vm>>

Next ==
    \/ ProcessBegin
    \/ ProcessTx
    \/ ProcessFinalize

Spec == Init /\ [][Next]_vars

---------------------------------------------------------------------------
(* Process called twice on the same block, configuration and pre-state *)

\* The configurations of the repeated runs: both appliers, with and without the DAO hook.
TwiceConfigs ==
    {c \in Configs : c.IsEIP658F /\ c.IsEIP161F /\ c.DAOForkSupport
                     /\ c.DAOForkBlock \in {<<>>, <<HeaderNumber>>}}

InitTwice == Init /\ config \in TwiceConfigs

\* The first call has returned.  The caller keeps what it returned and the state it
\* left, and calls Process again with the same block on an equal pre-state.
Rerun ==
    /\ pc = "done"
    /\ pin = <<>>
    /\ pin' = [ret |-> ret, statedb |-> statedb, applied |-> applied]
    /\ statedb' = InitStateDB
    /\ txs' = <<>>
    /\ applied' = <<>>
    /\ trace' = <<>>
    /\ ret' = NoReturn
    /\ pc' = "start"
    /\ UNCHANGED <<config, header, usedGas, gp, receipts, allLogs, pout, vm>>

\* The second call ranges over the same transactions; executions asked the same
\* report the same.
ReplayTx ==
    /\ pc = "loop"
    /\ pin # <<>>
    /\ Len(txs) < Len(pin.applied)
    /\ ProcessTxWith(pin.applied[Len(txs) + 1].tx, pin.applied[Len(txs) + 1].res)

ReplayFinalize ==
    /\ pin # <<>>
    /\ Len(txs) = Len(pin.applied)
    /\ ProcessFinalize

NextTwice ==
    \/ ProcessBegin
    \/ pin = <<>> /\ ProcessTx
    \/ pin = <<>> /\ ProcessFinalize
    \/ Rerun
    \/ ReplayTx
    \/ ReplayFinalize

SpecTwice == InitTwice /\ [][NextTwice]_vars

---------------------------------------------------------------------------
(* One call of ApplyTransaction, from every input a block can bring it to *)

\* Selectors other than "svm" and the empty string.
OtherInterpreters == {"evm", "SVM"}

\* The rule flags and the selector; the DAO fields play no part in a single call.
ApplyConfigs ==
    {c \in Configs : c.DAOForkBlock = <<>>}
    \cup {[c EXCEPT !.EVMInterpreter = i] :
             c \in {d \in Configs : d.DAOForkBlock = <<>> /\ d.EVMInterpreter = ""
                                    /\ d.IsEIP658F /\ d.IsEIP161F},
             i \in OtherInterpreters}

\* The state database with the sender at nonce n and balance b.
PreStateDB(n, b) ==
    [InitStateDB EXCEPT !.acct["sender"].nonce = n, !.acct["sender"].balance = b]

\* The counter and the pool a call can find: the native applier keeps
\* gp = gas limit - used gas, the adapter leaves the pool alone.
GasStates(cfg, hdr) ==
    IF cfg.EVMInterpreter = "svm"
    THEN {<<u, hdr.GasLimit>> : u \in 0..MaxUint64}
    ELSE {<<u, hdr.GasLimit - u>> : u \in 0..hdr.GasLimit}

\* Validated headers of every gas limit.
ApplyHeaders ==
    [Number : {HeaderNumber}, Coinbase : {"coinbase"}, GasLimit : 1..MaxHeaderGasLimit]

InitApply ==
    /\ pc = "apply"
    /\ config \in ApplyConfigs
    /\ header \in ApplyHeaders
    /\ statedb \in {PreStateDB(n, b) : n \in 0..1, b \in {0, SenderBalance, MaxUint64}}
    /\ \E g \in GasStates(config, header) :
          /\ usedGas = g[1]
          /\ gp = g[2]
    /\ \E tx \in TxsAll : \E res \in Executions(config, statedb, tx) :
          /\ pin = [tx |-> tx, res |-> res, index |-> IF usedGas = 0 THEN 0 ELSE 1]
          /\ (~ApplyTransaction(config, header, statedb, gp, usedGas, tx, res).ranVM)
                 => res = NotExecuted(statedb, tx)
    /\ txs = <<>>
    /\ receipts = <<>>
    /\ allLogs = <<>>
    /\ ret = NoReturn
    /\ applied = <<>>
    /\ trace = <<>>
    /\ pout = <<>>
    /\ vm = NoVM

\* part_000:72-73: prepare, then ApplyTransaction; pout keeps what the call returned,
\* what the pre-check answers and what each of the two appliers returns on these inputs.
ApplyOnce ==
    /\ pc = "apply"
    /\ \E st1 \in {Prepare(statedb, TxHash(pin.tx), BlockHash, pin.index)} :
       \E out \in {ApplyTransaction(config, header, st1, gp, usedGas, pin.tx, pin.res)} :
           /\ pout' = [out |-> out,
                       pre |-> st1, usedGas |-> usedGas, gp |-> gp,
                       precheck |-> precheckSputnikVMTransaction(st1, header, pin.tx, usedGas),
                       native |-> applyTransaction(config, header, st1, gp, usedGas,
                                                   pin.tx, pin.res),
                       svm |-> applySputnikTransaction(config, header, st1, gp, usedGas,
                                                       pin.tx, pin.res)]
           /\ statedb' = out.statedb
           /\ usedGas' = out.usedGas
           /\ gp' = out.gp
    /\ pc' = "applied"
    /\ UNCHANGED <<config, header, txs, receipts, allLogs, ret, applied, trace, pin, vm>>

NextApply == ApplyOnce

SpecApply == InitApply /\ [][NextApply]_vars

---------------------------------------------------------------------------
(* applySputnikTransaction, step by step *)

\* Faulty variant: the branch of an existing account does not leave the switch and
\* goes on to the nonexistent reply.
HostReplyFallsThrough(st, hdr, req) ==
    LET nonexist == [op |-> "CommitNonexist", address |-> req.address]
    IN  CASE req.typ = "none" -> <<>>
          [] req.typ = "account" ->
                IF Exist(st, req.address)
                THEN <<[op |-> "CommitAccount", address |-> req.address,
                        nonce |-> GetNonce(st, req.address),
                        balance |-> GetBalance(st, req.address),
                        code |-> GetCode(st, req.address)], nonexist>>
                ELSE <<nonexist>>
          [] req.typ \in {"account_code", "account_storage"} -> <<nonexist>>
          [] req.typ = "blockhash" ->
                <<[op |-> "CommitBlockhash", number |-> req.number,
                   hash |-> GetHash(hdr, U64(req.number))]>>

\* Faulty variant: a missing account is answered like an existing, empty one.
HostReplyNeverNonexist(st, hdr, req) ==
    CASE req.typ = "none" -> <<>>
      [] req.typ = "account" ->
            <<[op |-> "CommitAccount", address |-> req.address,
               nonce |-> GetNonce(st, req.address),
               balance |-> GetBalance(st, req.address),
               code |-> GetCode(st, req.address)]>>
      [] req.typ = "account_code" ->
            <<[op |-> "CommitAccountCode", address |-> req.address,
               code |-> GetCode(st, req.address)]>>
      [] req.typ = "account_storage" ->
            <<[op |-> "CommitAccountStorage", address |-> req.address,
               key |-> req.key,
               value |-> GetState(st, req.address, BigToHash(req.key))]>>
      [] req.typ = "blockhash" ->
            <<[op |-> "CommitBlockhash", number |-> req.number,
               hash |-> GetHash(hdr, U64(req.number))]>>

\* part_000:236-271: the commit calls the host makes for the request fire() returned.
HostReply(st, hdr, req) ==
    LET ethAddress == asEthAddress(req.address)
        nonexist == [op |-> "CommitNonexist", address |-> req.address]
    IN  CASE req.typ = "none" -> <<>>
          [] req.typ = "account" ->
                IF Exist(st, ethAddress)
                THEN <<[op |-> "CommitAccount", address |-> req.address,
                        nonce |-> GetNonce(st, ethAddress),
                        balance |-> GetBalance(st, ethAddress),
                        code |-> GetCode(st, ethAddress)]>>
                ELSE <<nonexist>>
          [] req.typ = "account_code" ->
                IF Exist(st, ethAddress)
                THEN <<[op |-> "CommitAccountCode", address |-> req.address,
                        code |-> GetCode(st, ethAddress)]>>
                ELSE <<nonexist>>
          [] req.typ = "account_storage" ->
                IF Exist(st, ethAddress)
                THEN <<[op |-> "CommitAccountStorage", address |-> req.address,
                        key |-> req.key,
                        value |-> GetState(st, ethAddress, BigToHash(req.key))]>>
                ELSE <<nonexist>>
          [] req.typ = "blockhash" ->
                <<[op |-> "CommitBlockhash", number |-> req.number,
                   hash |-> GetHash(hdr, U64(req.number))]>>

\* part_000:237-238: the request that leaves the loop.
BreakOuter(req) == req.typ = "none"

\* The rule flags of the adapter's callers.
SvmConfigs == {c \in ApplyConfigs : c.EVMInterpreter = "svm"}

\* The transactions given to the adapter: a call, a creation, one with a nonce that is
\* too high, one whose sender cannot be recovered.
SvmTxs ==
    { tx \in TxsAll :
        /\ tx.gasPrice = 1 /\ tx.gas = 2
        /\ \/ tx.sigOk /\ tx.nonce = 0
           \/ tx.sigOk /\ tx.nonce = 1 /\ tx.to = "coinbase"
           \/ ~tx.sigOk /\ tx.nonce = 0 /\ tx.to = "coinbase" }

\* The state the adapter is given: the DAO account holds code and a stored word.
SvmStateDB ==
    [InitStateDB EXCEPT !.acct["dao"].code = "daocode",
                        !.acct["dao"].storage[HashModulus - 1] = 5]

InitSvm ==
    /\ pc = "svm_precheck"
    /\ config \in SvmConfigs
    /\ header \in Headers
    /\ \E tx \in SvmTxs : \E u \in {0, 1} :
          /\ usedGas = u
          /\ pin = [tx |-> tx, index |-> u, usedGas |-> u,
                    pre |-> Prepare(SvmStateDB, TxHash(tx), BlockHash, u)]
          /\ statedb = Prepare(SvmStateDB, TxHash(tx), BlockHash, u)
    /\ gp = header.GasLimit
    /\ txs = <<>>
    /\ receipts = <<>>
    /\ allLogs = <<>>
    /\ ret = NoReturn
    /\ applied = <<>>
    /\ trace = <<>>
    /\ pout = <<>>
    /\ vm = NoVM

\* What the adapter returns.
SvmReturn(receipt, gas, err) == [receipt |-> receipt, gas |-> gas, err |-> err]

\* Faulty variant: the patch and the VM are built before the pre-check runs, and a
\* failing pre-check returns without releasing them.
SvmPrecheckAfterNew ==
    /\ pc = "svm_precheck"
    /\ LET err == precheckSputnikVMTransaction(statedb, header, pin.tx, usedGas)
       IN  IF err # NoErr
           THEN /\ pout' = SvmReturn(NilReceipt, 0, err)
                /\ vm' = [vm EXCEPT !.patchNew = @ + 1, !.vmNew = @ + 1]
                /\ pc' = "svm_returned"
           ELSE /\ pc' = "svm_asmessage"
                /\ UNCHANGED <<pout, vm>>
    /\ UNCHANGED <<config, header, statedb, usedGas, gp, txs, receipts, allLogs, ret,
                   applied, trace, pin>>

\* part_000:175-178
SvmPrecheck ==
    /\ pc = "svm_precheck"
    /\ LET err == precheckSputnikVMTransaction(statedb, header, pin.tx, usedGas)
       IN  IF err # NoErr
           THEN /\ pout' = SvmReturn(NilReceipt, 0, err)
                /\ pc' = "svm_returned"
           ELSE /\ pc' = "svm_asmessage"
                /\ UNCHANGED pout
    /\ UNCHANGED <<config, header, statedb, usedGas, gp, txs, receipts, allLogs, ret,
                   applied, trace, pin, vm>>

\* part_000:202-205
SvmAsMessage ==
    /\ pc = "svm_asmessage"
    /\ IF AsMessageErr(pin.tx) # NoErr
       THEN /\ pout' = SvmReturn(NilReceipt, 0, AsMessageErr(pin.tx))
            /\ pc' = "svm_returned"
       ELSE /\ pc' = "svm_new"
            /\ UNCHANGED pout
    /\ UNCHANGED <<config, header, statedb, usedGas, gp, txs, receipts, allLogs, ret,
                   applied, trace, pin, vm>>

\* part_000:230-231: the patch, then the VM instance.
SvmNew ==
    /\ pc = "svm_new"
    /\ vm' = [vm EXCEPT !.patchNew = @ + 1, !.vmNew = @ + 1]
    /\ pc' = "svm_fire"
    /\ UNCHANGED <<config, header, statedb, usedGas, gp, txs, receipts, allLogs, ret,
                   applied, trace, pin, pout>>

\* part_000:235: vm.Fire() returns the VM's next request.
SvmFire ==
    /\ pc = "svm_fire"
    /\ \E req \in Requests :
          vm' = [UseVM(vm) EXCEPT !.fired = TRUE, !.pending = req, !.reply = <<>>,
                                  !.lateCall = @ \/ vm.sawNone,
                                  !.sawNone = @ \/ req.typ = "none"]
    /\ pc' = "svm_commit"
    /\ UNCHANGED <<config, header, statedb, usedGas, gp, txs, receipts, allLogs, ret,
                   applied, trace, pin, pout>>

\* Faulty variant: the host fetches the requested account with getOrNewStateObject,
\* which creates a missing account and marks the account dirty.
SvmCommitTouchesAccount ==
    /\ pc = "svm_commit"
    /\ LET reply == HostReply(statedb, header, vm.pending)
       IN  vm' = [(IF reply = <<>> THEN vm ELSE UseVM(vm)) EXCEPT
                     !.reply = @ \o reply,
                     !.committed = @ \/ reply # <<>>,
                     !.lateCall = @ \/ (reply # <<>> /\ vm.sawNone)]
    /\ statedb' = IF vm.pending.typ \in {"account", "account_code", "account_storage"}
                  THEN Touch(statedb, asEthAddress(vm.pending.address))
                  ELSE statedb
    /\ pc' = IF BreakOuter(vm.pending) THEN "svm_changes" ELSE "svm_fire"
    /\ UNCHANGED <<config, header, usedGas, gp, txs, receipts, allLogs, ret,
                   applied, trace, pin, pout>>

\* part_000:236-271: the switch on the request.
SvmCommit ==
    /\ pc = "svm_commit"
    /\ LET reply == HostReply(statedb, header, vm.pending)
       IN  vm' = [(IF reply = <<>> THEN vm ELSE UseVM(vm)) EXCEPT
                     !.reply = @ \o reply,
                     !.committed = @ \/ reply # <<>>,
                     !.lateCall = @ \/ (reply # <<>> /\ vm.sawNone)]
    /\ pc' = IF BreakOuter(vm.pending) THEN "svm_changes" ELSE "svm_fire"
    /\ UNCHANGED <<config, header, statedb, usedGas, gp, txs, receipts, allLogs, ret,
                   applied, trace, pin, pout>>

\* part_000:275: vm.AccountChanges() returns the list the loop ranges over.
SvmAccountChanges ==
    /\ pc = "svm_changes"
    /\ \E list \in ChangeLists :
          vm' = [UseVM(vm) EXCEPT !.changes = list, !.next = 1]
    /\ pc' = "svm_change"
    /\ UNCHANGED <<config, header, statedb, usedGas, gp, txs, receipts, allLogs, ret,
                   applied, trace, pin, pout>>

\* part_000:276-313: one iteration; an unknown variant panics (line 312).
SvmChange ==
    /\ pc = "svm_change"
    /\ vm.next <= Len(vm.changes)
    /\ LET account == vm.changes[vm.next]
       IN  IF account.typ \in {"increase_balance", "decrease_balance", "removed",
                               "full", "create"}
           THEN /\ statedb' = ApplyAccountChange(statedb, account)
                /\ trace' = Append(trace, [op |-> "AccountChange", typ |-> account.typ])
                /\ pc' = "svm_change"
           ELSE /\ pc' = "svm_panicked"
                /\ UNCHANGED <<statedb, trace>>
    /\ vm' = [vm EXCEPT !.next = @ + 1]
    /\ UNCHANGED <<config, header, usedGas, gp, txs, receipts, allLogs, ret,
                   applied, pin, pout>>

\* part_000:315-327: vm.Logs(), each log added to the state database.
SvmLogs ==
    /\ pc = "svm_change"
    /\ vm.next > Len(vm.changes)
    /\ \E logs \in VMLogLists :
          /\ vm' = [UseVM(vm) EXCEPT !.logs = logs]
          /\ statedb' = AddLogs(statedb, logs, header.Number)
          /\ trace' = trace \o [i \in 1..Len(logs) |-> [op |-> "AddLog"]]
    /\ pc' = "svm_finalise"
    /\ UNCHANGED <<config, header, usedGas, gp, txs, receipts, allLogs, ret,
                   applied, pin, pout>>

\* part_000:329-352: finalisation, vm.UsedGas(), vm.Failed(), the receipt.
SvmReceipt ==
    /\ pc = "svm_finalise"
    /\ \E g \in {1, pin.tx.gas} : \E failed \in BOOLEAN :
          LET fin == SputnikFinalisation(config, statedb)
              gas == U64(g)
              used1 == U64(usedGas + gas)
              r0 == NewReceipt(fin.root, failed, used1)
              logs == GetLogs(fin.statedb, TxHash(pin.tx))
              receipt == [r0 EXCEPT !.TxHash = TxHash(pin.tx),
                                    !.GasUsed = gas,
                                    !.ContractAddress = SputnikContractAddress(pin.tx),
                                    !.Logs = logs,
                                    !.Bloom = CreateBloom(logs)]
          IN  /\ statedb' = fin.statedb
              /\ trace' = trace \o <<fin.call, [op |-> "usedGas"], [op |-> "NewReceipt"]>>
              /\ usedGas' = used1
              /\ vm' = [UseVM(vm) EXCEPT !.usedGas = g, !.failed = failed]
              /\ pout' = SvmReturn(receipt, gas, AsMessageErr(pin.tx))
    /\ pc' = "svm_free"
    /\ UNCHANGED <<config, header, gp, txs, receipts, allLogs, ret, applied, pin>>

\* part_000:355-358: vm.Free(), patch.Free(), return.
SvmFree ==
    /\ pc = "svm_free"
    /\ vm' = [vm EXCEPT !.vmFree = @ + 1, !.patchFree = @ + 1]
    /\ trace' = trace \o <<[op |-> "vm.Free"], [op |-> "patch.Free"]>>
    /\ pc' = "svm_returned"
    /\ UNCHANGED <<config, header, statedb, usedGas, gp, txs, receipts, allLogs, ret,
                   applied, pin, pout>>

NextSvm ==
    \/ SvmPrecheck
    \/ SvmAsMessage
    \/ SvmNew
    \/ SvmFire
    \/ SvmCommit
    \/ SvmAccountChanges
    \/ SvmChange
    \/ SvmLogs
    \/ SvmReceipt
    \/ SvmFree

SpecSvm == InitSvm /\ [][NextSvm]_vars

\* The calls into the VM return and the adapter keeps running.
SpecSvmFair == SpecSvm /\ WF_vars(NextSvm)

---------------------------------------------------------------------------
(* The patch builder *)

\* params.CreateGas, params.MaxCodeSize, params.CallCreateDepth
CreateGas == 32000
MaxCodeSize == 24576
CallCreateDepth == 1024

\* config.GasTable(header.Number): the table is a token, its fields are pairs.
GasTables == {"GasTableHomestead", "GasTableEIP150"}
GasTable(cfg, number) ==
    [f \in {"ExtcodeCopy", "Balance", "SLoad", "Suicide", "CreateBySuicide", "Calls",
            "ExpByte"} |-> <<cfg.GasTable, f>>]

\* The rule flags makeSputnikVMPatch reads.
RuleFlags ==
    {"IsEIP2F", "IsEIP7F", "IsEIP150", "IsEIP161F", "IsEIP170F", "IsEIP198F", "IsEIP212F",
     "IsEIP213F", "IsEIP140F", "IsEIP145F", "IsEIP211F", "IsEIP214F", "IsEIP1014F",
     "IsEIP1052F", "IsEIP1283F"}

\* The chain configurations at header.Number, as the flags they give and their gas table.
PatchConfigs ==
    { [f \in RuleFlags \cup {"GasTable"} |-> IF f = "GasTable" THEN t ELSE f \in on] :
        on \in SUBSET RuleFlags, t \in GasTables }

\* config.Rules(header.Number)
Rules(cfg, number) == [f \in RuleFlags |-> cfg[f]]

\* toBigInt
toBigInt(x) == x

\* Faulty variant: the pairing check, precompile 8, is enabled by EIP-213 with 6 and 7.
EnabledPrecompiledsPairingByEIP213(rules) ==
    <<1, 2, 3, 4>>
        \o (IF rules.IsEIP198F THEN <<5>> ELSE <<>>)
        \o (IF rules.IsEIP213F THEN <<6, 7, 8>> ELSE <<>>)

\* part_000:384-406
EnabledPrecompileds(rules) ==
    <<1, 2, 3, 4>>
        \o (IF rules.IsEIP198F THEN <<5>> ELSE <<>>)
        \o (IF rules.IsEIP213F THEN <<6, 7>> ELSE <<>>)
        \o (IF rules.IsEIP212F THEN <<8>> ELSE <<>>)

\* sputnikvm.NewDynamicPatch(&patchBuilder, &accountPatch)
NewDynamicPatch(patchBuilder, accountPatch) ==
    [builder |-> patchBuilder, account |-> accountPatch]

\* part_000:361-449
makeSputnikVMPatch(cfg, hdr) ==
    LET gasTable == GasTable(cfg, hdr.Number)
        codeDepositLimit == IF cfg.IsEIP170F THEN MaxCodeSize ELSE 0
        rules == Rules(cfg, hdr.Number)
        createGasCost == IF ~rules.IsEIP2F THEN 0 ELSE CreateGas
        enabledPrecompileds == EnabledPrecompileds(rules)
        patchBuilder ==
            [CodeDepositLimit |-> codeDepositLimit,
             CallStackLimit |-> CallCreateDepth,
             GasExtcode |-> toBigInt(gasTable.ExtcodeCopy),
             GasBalance |-> toBigInt(gasTable.Balance),
             GasSload |-> toBigInt(gasTable.SLoad),
             GasSuicide |-> toBigInt(gasTable.Suicide),
             GasSuicideNewAccount |-> toBigInt(gasTable.CreateBySuicide),
             GasCall |-> toBigInt(gasTable.Calls),
             GasExpbyte |-> toBigInt(gasTable.ExpByte),
             GasTransactionCreate |-> toBigInt(createGasCost),
             ForceCodeDeposit |-> ~rules.IsEIP2F,
             HasDelegateCall |-> rules.IsEIP7F,
             HasStaticCall |-> rules.IsEIP214F,
             HasRevert |-> rules.IsEIP140F,
             HasReturnData |-> rules.IsEIP211F,
             HasBitwiseShift |-> rules.IsEIP145F,
             HasCreate2 |-> rules.IsEIP1014F,
             HasExtCodeHash |-> rules.IsEIP1052F,
             HasReducedSstoreGasMetering |-> rules.IsEIP1283F,
             ErrOnCallWithMoreGas |-> ~rules.IsEIP150,
             CallCreateL64AfterGas |-> rules.IsEIP150,
             MemoryLimit |-> MaxUint64,
             EnabledContracts |-> enabledPrecompileds]
        initialNonce == 0
        initialCreateNonce == IF rules.IsEIP161F THEN 1 ELSE 0
        accountPatch ==
            [InitialNonce |-> toBigInt(initialNonce),
             InitialCreateNonce |-> toBigInt(initialCreateNonce),
             EmptyConsideredExists |-> ~rules.IsEIP161F,
             AllowPartialChange |-> TRUE]
    IN  NewDynamicPatch(patchBuilder, accountPatch)

\* One call of makeSputnikVMPatch: the configuration in `config`, the patch in `pout`.
InitPatch ==
    /\ pc = "patch_make"
    /\ config \in PatchConfigs
    /\ header \in Headers
    /\ statedb = InitStateDB
    /\ usedGas = 0
    /\ gp = header.GasLimit
    /\ txs = <<>>
    /\ receipts = <<>>
    /\ allLogs = <<>>
    /\ ret = NoReturn
    /\ applied = <<>>
    /\ trace = <<>>
    /\ pin = <<>>
    /\ pout = <<>>
    /\ vm = NoVM

MakePatch ==
    /\ pc = "patch_make"
    /\ pout' = makeSputnikVMPatch(config, header)
    /\ pc' = "patch_made"
    /\ UNCHANGED <<config, header, statedb, usedGas, gp, txs, receipts, allLogs, ret,
                   applied, trace, pin, vm>>

NextPatch == MakePatch

SpecPatch == InitPatch /\ [][NextPatch]_vars

---------------------------------------------------------------------------
(* Properties *)

Returned == pc = "done"
ReturnedOk == pc = "done" /\ ret.err = NoErr
IsSvm == config.EVMInterpreter = "svm"

\* The sum of GasUsed over the first k receipts of rs, as an unbounded integer.
RECURSIVE SumGasUsed(_, _)
SumGasUsed(rs, k) == IF k = 0 THEN 0 ELSE SumGasUsed(rs, k - 1) + rs[k].GasUsed

\* C1: when applying a transaction returns an error, Process returns that error with
\* no receipts, no logs and total gas used 0, whatever was applied before.
C1_AllOrNothing ==
    \A i \in 1..Len(applied) :
        applied[i].err # NoErr =>
            /\ pc = "done"
            /\ ret.err = applied[i].err
            /\ ret.receipts = <<>>
            /\ ret.logs = <<>>
            /\ ret.usedGas = 0

\* C1 witness: a block fails after a transaction with a log was applied and counted.
C1_Witness ==
    /\ pc = "done"
    /\ ret.err # NoErr
    /\ Len(receipts) >= 1
    /\ allLogs # <<>>
    /\ usedGas > 0

\* C2: for a block processed without error, the sum of the receipts' gas_used equals
\* the last receipt's cumulative_gas_used, equals the returned total gas used, and is
\* at most the block gas limit.
C2_GasTotals ==
    ReturnedOk =>
        LET n == Len(ret.receipts)
            sum == SumGasUsed(ret.receipts, n)
        IN  /\ n > 0 => sum = ret.receipts[n].CumulativeGasUsed
            /\ sum = ret.usedGas
            /\ sum <= header.GasLimit

\* C3: after every prefix of the block the running used gas, and each receipt's
\* cumulative_gas_used, is the sum of the gas used so far, never decreases and never
\* exceeds header.gas_limit.
C3_RunningGas ==
    /\ \A k \in 1..Len(receipts) :
          /\ receipts[k].CumulativeGasUsed = SumGasUsed(receipts, k)
          /\ k > 1 => receipts[k].CumulativeGasUsed >= receipts[k - 1].CumulativeGasUsed
          /\ receipts[k].CumulativeGasUsed <= header.GasLimit
    /\ pc = "loop" =>
          /\ usedGas = SumGasUsed(receipts, Len(receipts))
          /\ usedGas <= header.GasLimit

\* The pre-check's inputs of a lone call pass the signature, nonce and balance checks.
ValidSenderState(st, tx) ==
    /\ tx.sigOk
    /\ GetNonce(st, tx.from) = tx.nonce
    /\ GetBalance(st, tx.from) >= tx.gas * tx.gasPrice

ExpectedPrecheck(st, hdr, tx, used) ==
    IF GetNonce(st, tx.from) < tx.nonce THEN ErrNonceTooHigh
    ELSE IF GetNonce(st, tx.from) > tx.nonce THEN ErrNonceTooLow
    ELSE IF GetBalance(st, tx.from) < tx.gas * tx.gasPrice THEN errInsufficientBalanceForGas
    ELSE IF used + tx.gas > hdr.GasLimit THEN ErrGasLimitReached
    ELSE NoErr

\* C5: the pre-check reports nonce_too_high, nonce_too_low,
\* insufficient_balance_for_gas or gas_limit_reached, the first that applies in this
\* order, and no error when none applies.
C5_PrecheckErrors ==
    IsSvm =>
        \A i \in 1..Len(applied) :
            applied[i].tx.sigOk =>
                precheckSputnikVMTransaction(applied[i].pre, header, applied[i].tx,
                                             applied[i].usedGas)
                = ExpectedPrecheck(applied[i].pre, header, applied[i].tx, applied[i].usedGas)

\* C6: on the same inputs and with the same execution result, the native applier and
\* the external-VM adapter return receipts equal in every field.
C6_SameReceipts ==
    (pc = "applied" /\ pout.native.err = NoErr /\ pout.svm.err = NoErr) =>
        pout.native.receipt = pout.svm.receipt

\* C7: for a block processed without error, the i-th receipt carries the hash of the
\* i-th transaction and transaction_index i.
C7_ReceiptOrder ==
    ReturnedOk =>
        /\ Len(ret.receipts) = Len(txs)
        /\ \A i \in 1..Len(ret.receipts) :
              /\ ret.receipts[i].TxHash = TxHash(txs[i])
              /\ ret.receipts[i].TransactionIndex = i - 1

\* The finalisation calls made on the state database so far, one per applied transaction.
FinalisationCalls ==
    SelectSeq(trace, LAMBDA c : c.op \in {"Finalise", "IntermediateRoot"})

\* C8: with EIP-658 active every receipt has an empty post_state_root and finalise is
\* called, never intermediate_root; with EIP-658 inactive every receipt carries the
\* root intermediate_root returned for its transaction, the root of the state it left.
C8_PostStateRoot ==
    /\ Len(FinalisationCalls) = Len(receipts)
    /\ \A i \in 1..Len(receipts) :
          IF config.IsEIP658F
          THEN /\ receipts[i].PostState = <<>>
               /\ FinalisationCalls[i].op = "Finalise"
          ELSE /\ FinalisationCalls[i].op = "IntermediateRoot"
               /\ receipts[i].PostState = FinalisationCalls[i].root
               /\ receipts[i].PostState # <<>>
    /\ (pc = "loop" /\ ~config.IsEIP658F /\ Len(receipts) > 0)
          => receipts[Len(receipts)].PostState = RootOf(statedb)

\* C8 witness: both rules are seen on blocks of two receipts; this one is the adapter
\* before EIP-658.
C8_Witness ==
    /\ IsSvm
    /\ ~config.IsEIP658F
    /\ Len(receipts) = 2
    /\ receipts[2].PostState # <<>>

\* C9: the receipt of a transaction without `to` carries the creation address of the
\* sender and the sender's nonce in the state database right before the transaction
\* was applied; the receipt of a transaction with `to` carries none.
C9_ContractAddress ==
    \A i \in 1..Len(receipts) :
        LET a == applied[i]
        IN  receipts[i].ContractAddress =
                IF a.tx.to = NoAddr
                THEN CreateAddress(a.tx.from, GetNonce(a.pre, a.tx.from))
                ELSE ZeroAddress

\* C9 witness: the adapter applied a creation sent at nonce 1.
C9_Witness ==
    /\ IsSvm
    /\ Len(receipts) = 2
    /\ applied[2].tx.to = NoAddr
    /\ GetNonce(applied[2].pre, "sender") = 1
    /\ receipts[2].ContractAddress = CreateAddress("sender", 1)

\* C10: on the external-VM path a transaction that passed the pre-check yields a
\* receipt and no error whatever the VM reports; the receipt's status is vm.failed(),
\* its gas, logs and changes are applied, and Process goes on.
C10_FailedIsNoError ==
    IsSvm =>
        \A i \in 1..Len(applied) :
            LET a == applied[i]
            IN  precheckSputnikVMTransaction(a.pre, header, a.tx, a.usedGas) = NoErr =>
                    /\ a.err = NoErr
                    /\ i <= Len(receipts)
                    /\ receipts[i].Failed = a.res.failed
                    /\ receipts[i].GasUsed = U64(a.res.usedGas)
                    /\ Len(receipts[i].Logs) = Len(a.res.logs)
                    /\ pc = "done" => ret.err = NoErr \/ i < Len(applied)
                    /\ (i = Len(applied) /\ pc = "loop") =>
                          /\ usedGas = U64(a.usedGas + a.res.usedGas)
                          /\ GetNonce(statedb, a.tx.from) = a.tx.nonce + 1

\* C10 witness: the VM reported a failure for the first transaction and Process
\* applied the second.
C10_Witness ==
    /\ IsSvm
    /\ Len(receipts) = 2
    /\ applied[1].res.failed
    /\ receipts[1].Failed

\* The adapter has left applySputnikTransaction, by a return or by a panic.
SvmExited == pc \in {"svm_returned", "svm_panicked"}

\* C11: on every exit path of the adapter (pre-check failure, sender-recovery failure,
\* normal completion, panic on an unknown account change) every VM instance and every
\* patch that was allocated has been released exactly once, and the instance is never
\* used after its release.
C11_ReleasedOnEveryExit ==
    /\ ~vm.usedFreed
    /\ vm.vmFree <= vm.vmNew
    /\ vm.patchFree <= vm.patchNew
    /\ SvmExited => (vm.vmFree = vm.vmNew /\ vm.patchFree = vm.patchNew)

\* The calls of one operation recorded so far.
CallsOf(op) == SelectSeq(trace, LAMBDA c : c.op = op)

\* C12: the DAO hard-fork hook is invoked iff DAO fork support is enabled and the
\* configured fork block is the block's number; it then runs exactly once, before the
\* first transaction is prepared, and the transactions execute on the post-hook state.
C12_DAOHook ==
    (pc # "start") =>
        LET due == /\ config.DAOForkSupport
                   /\ config.DAOForkBlock # <<>>
                   /\ config.DAOForkBlock[1] = header.Number
        IN  /\ Len(CallsOf("ApplyDAOHardFork")) = (IF due THEN 1 ELSE 0)
            /\ due => trace[1].op = "ApplyDAOHardFork"
            /\ Len(applied) > 0 =>
                  applied[1].pre.acct =
                      (IF due THEN ApplyDAOHardFork(InitStateDB) ELSE InitStateDB).acct
            /\ due => /\ GetBalance(statedb, "dao") = 0
                      /\ GetBalance(statedb, DAORefundContract) = DaoBalance

\* C12 witness: the hook ran and two transactions were applied after it.
C12_Witness ==
    /\ Len(CallsOf("ApplyDAOHardFork")) = 1
    /\ Len(receipts) = 2
    /\ trace[2].op = "Prepare"
    /\ GetBalance(applied[1].pre, DAORefundContract) = DaoBalance

\* C13: a run of Process that returns without error has invoked the engine's finalize
\* exactly once, after the last transaction was applied and its receipt appended (an
\* empty block returns empty receipts, empty logs and gas 0); a run that returns an
\* error, and a run that has not returned, has not invoked it.
C13_FinalizeOnce ==
    /\ Len(CallsOf("engine.Finalize")) = (IF ReturnedOk THEN 1 ELSE 0)
    /\ ReturnedOk =>
          /\ trace[Len(trace)].op = "engine.Finalize"
          /\ Len(ret.receipts) = Len(txs)
          /\ Len(applied) = Len(txs)
          /\ txs = <<>> => (ret.receipts = <<>> /\ ret.logs = <<>> /\ ret.usedGas = 0)

\* C13 witness: finalize ended a block of two transactions.
C13_Witness ==
    /\ ReturnedOk
    /\ Len(ret.receipts) = 2
    /\ trace[Len(trace)].op = "engine.Finalize"

\* C14: every receipt has 0 < gas_used <= tx.gas_limit <= header.gas_limit; on the
\* external-VM path gas_used is vm.used_gas() as an unsigned 64-bit integer.
C14_GasUsedBounds ==
    \A i \in 1..Len(receipts) :
        /\ 0 < receipts[i].GasUsed
        /\ receipts[i].GasUsed <= applied[i].tx.gas
        /\ applied[i].tx.gas <= header.GasLimit
        /\ IsSvm => receipts[i].GasUsed = U64(applied[i].res.usedGas)

C16_Dispatch ==
    (pc = "applied") =>
        IF config.EVMInterpreter = "svm"
        THEN /\ pout.out.applier = "applySputnikTransaction"
             /\ pout.out = pout.svm
        ELSE /\ pout.out.applier = "applyTransaction"
             /\ pout.out = pout.native

\* C16 witness: a selector that is neither "svm" nor empty ran the native applier, on
\* inputs for which the two appliers return different receipts.
C16_Witness ==
    /\ pc = "applied"
    /\ config.EVMInterpreter = "SVM"
    /\ pout.out.applier = "applyTransaction"
    /\ pout.out.err = NoErr
    /\ pout.svm.err = NoErr
    /\ pout.out.receipt # pout.svm.receipt

\* The logs of the receipts rs, receipt after receipt.
RECURSIVE ConcatLogs(_)
ConcatLogs(rs) ==
    IF rs = <<>> THEN <<>>
    ELSE ConcatLogs(SubSeq(rs, 1, Len(rs) - 1)) \o rs[Len(rs)].Logs

\* C17: the log list Process returns for a block processed without error is the
\* concatenation, in inclusion order, of the logs of the receipts it returns, the order
\* inside each receipt kept; the local list is that concatenation after every transaction.
C17_AllLogs ==
    /\ pc \in {"loop", "done"} => allLogs = ConcatLogs(receipts)
    /\ ReturnedOk => ret.logs = ConcatLogs(ret.receipts)

\* C17 witness: a block whose first transaction emitted two logs and whose second
\* emitted one was processed without error.
C17_Witness ==
    /\ ReturnedOk
    /\ Len(ret.receipts) = 2
    /\ Len(ret.receipts[1].Logs) = 2
    /\ Len(ret.receipts[2].Logs) = 1
    /\ Len(ret.logs) = 3
    /\ ret.logs[1].Address = VMLog2.Address
    /\ ret.logs[3].TxHash = TxHash(txs[2])

\* The adapter is past the request loop.
SvmPastLoop ==
    pc \in {"svm_changes", "svm_change", "svm_finalise", "svm_free", "svm_panicked"}
    \/ (pc = "svm_returned" /\ vm.vmNew > 0)

\* The request loop alternates: when the adapter is about to fire again, the request of
\* the previous fire got exactly one commit, made for what the request names; once
\* fire has returned `none` there is no fire and no commit any more, and the loop is
\* left only then.
RequestReplyAlternation ==
    /\ (pc = "svm_fire" /\ vm.fired) =>
          /\ vm.pending.typ # "none"
          /\ Len(vm.reply) = 1
          /\ vm.pending.typ \in {"account", "account_code", "account_storage"} =>
                vm.reply[1].address = vm.pending.address
          /\ vm.reply[1].op = "CommitAccountStorage" => vm.reply[1].key = vm.pending.key
          /\ vm.pending.typ = "blockhash" =>
                (vm.reply[1].op = "CommitBlockhash"
                 /\ vm.reply[1].number = vm.pending.number)
    /\ ~vm.lateCall
    /\ SvmPastLoop => (vm.sawNone /\ vm.pending.typ = "none" /\ vm.reply = <<>>)

\* C18: the request loop is a strict request/reply alternation (one commit per request
\* other than `none`, for what the request names, nothing after `none`), and it
\* terminates if and only if the VM returns `none`.
C18_RequestReply ==
    /\ []RequestReplyAlternation
    /\ (pc = "svm_commit" /\ vm.pending.typ = "none") ~> (pc = "svm_changes")

\* C18 witness: the loop was left after at least one request had been answered.
C18_Witness ==
    /\ pc = "svm_changes"
    /\ vm.committed
    /\ vm.sawNone

\* C19: the reply to account, account_code and account_storage requests is
\* commit_nonexist exactly when the account does not exist in the state database;
\* otherwise it carries the account's nonce, balance and code, its code alone, or the
\* stored value of the requested key.
C19_ReplyByExistence ==
    (vm.reply # <<>> /\ vm.pending.typ \in {"account", "account_code", "account_storage"}) =>
        LET q == vm.pending
            r == vm.reply[1]
            ac == statedb.acct[q.address]
        IN  /\ (r.op = "CommitNonexist") <=> ~ac.exists
            /\ r.address = q.address
            /\ ac.exists =>
                 CASE q.typ = "account" ->
                        r = [op |-> "CommitAccount", address |-> q.address,
                             nonce |-> ac.nonce, balance |-> ac.balance, code |-> ac.code]
                   [] q.typ = "account_code" ->
                        r = [op |-> "CommitAccountCode", address |-> q.address,
                             code |-> ac.code]
                   [] q.typ = "account_storage" ->
                        r = [op |-> "CommitAccountStorage", address |-> q.address,
                             key |-> q.key, value |-> ac.storage[q.key]]

\* C19 witness: the stored word of an existing account was committed.
C19_Witness ==
    /\ pc = "svm_fire"
    /\ vm.pending.typ = "account_storage"
    /\ vm.pending.address = "dao"
    /\ Len(vm.reply) = 1
    /\ vm.reply[1].op = "CommitAccountStorage"
    /\ vm.reply[1].value = 5

\* The storage s after the entries of items were written, first to last.
RECURSIVE StorageAfter(_, _)
StorageAfter(s, items) ==
    IF items = <<>> THEN s
    ELSE LET last == items[Len(items)]
         IN  [StorageAfter(s, SubSeq(items, 1, Len(items) - 1)) EXCEPT ![last.Key] = last.Value]

\* The account ac of address a after the change c, by the mapping of §4.3.
AccountAfter(ac, a, c) ==
    IF c.address # a THEN ac
    ELSE LET live == [ac EXCEPT !.exists = TRUE]
         IN  CASE c.typ = "increase_balance" -> [live EXCEPT !.balance = ac.balance + c.amount]
               [] c.typ = "decrease_balance" -> [live EXCEPT !.balance = ac.balance - c.amount]
               [] c.typ = "removed" ->
                     IF ac.exists THEN [ac EXCEPT !.suicided = TRUE, !.balance = 0] ELSE ac
               [] c.typ \in {"full", "create"} ->
                     [live EXCEPT !.balance = c.balance, !.nonce = c.nonce, !.code = c.code,
                                  !.storage = StorageAfter(ac.storage, c.storage)]

\* The accounts after the changes of the list were applied left to right.
RECURSIVE FoldChanges(_, _)
FoldChanges(acct, changes) ==
    IF changes = <<>> THEN acct
    ELSE LET before == FoldChanges(acct, SubSeq(changes, 1, Len(changes) - 1))
         IN  [a \in Addr |-> AccountAfter(before[a], a, changes[Len(changes)])]

\* C20: the adapter applies the VM's account changes in list order: after each of them
\* the accounts are the left-to-right fold of the changes applied so far over the
\* pre-state, under the mapping increase_balance adds, decrease_balance subtracts,
\* removed calls suicide, full and create overwrite balance, nonce and code and set
\* each listed storage entry; a later change of an address builds on an earlier one.
C20_ChangesInOrder ==
    (pc = "svm_change") =>
        /\ statedb.acct = FoldChanges(pin.pre.acct, SubSeq(vm.changes, 1, vm.next - 1))
        /\ statedb.logs = pin.pre.logs

\* C20 witness: a full change of the sender and then a decrease of its balance were
\* both applied.
C20_Witness ==
    /\ pc = "svm_change"
    /\ vm.next = 3
    /\ vm.changes[1].typ = "full"
    /\ vm.changes[2].typ = "decrease_balance"
    /\ vm.changes[1].address = vm.changes[2].address
    /\ GetBalance(statedb, vm.changes[1].address) = vm.changes[1].balance - vm.changes[2].amount


StepRank(c) ==
    CASE c.op = "AccountChange" -> 1
      [] c.op = "AddLog" -> 2
      [] c.op \in {"Finalise", "IntermediateRoot"} -> 3
      [] c.op = "usedGas" -> 4
      [] c.op = "NewReceipt" -> 5
      [] c.op = "vm.Free" -> 6
      [] c.op = "patch.Free" -> 7
      [] OTHER -> 0

StepsOfRank(r) == SelectSeq(trace, LAMBDA c : StepRank(c) = r)

\* C22: after the request loop the adapter applies all account changes, then adds all
\* logs, then makes exactly one finalisation call, then adds the used gas and builds the
\* receipt, then releases the VM and the patch; the finalisation call is
\* finalise(delete_empty = true) whenever EIP-658 is active, whatever EIP-161 is, and
\* intermediate_root(delete_empty = the EIP-161 flag) otherwise.
C22_PostExecutionOrder ==
    /\ \A i, j \in 1..Len(trace) :
          i < j => /\ StepRank(trace[i]) >= 1
                   /\ StepRank(trace[i]) <= StepRank(trace[j])
                   /\ StepRank(trace[j]) >= 3 => StepRank(trace[i]) < StepRank(trace[j])
    /\ \A i \in 1..Len(trace) :
          StepRank(trace[i]) = 3 =>
              IF config.IsEIP658F
              THEN trace[i].op = "Finalise" /\ trace[i].deleteEmpty = TRUE
              ELSE /\ trace[i].op = "IntermediateRoot"
                   /\ trace[i].deleteEmpty = config.IsEIP161F
    /\ (pc = "svm_returned" /\ pout.err = NoErr) =>
          /\ Len(StepsOfRank(1)) = Len(vm.changes)
          /\ Len(StepsOfRank(2)) = Len(vm.logs)
          /\ \A r \in 3..7 : Len(StepsOfRank(r)) = 1
          /\ statedb = SputnikFinalisation(config,
                          AddLogs(ApplyAccountChanges(pin.pre, vm.changes), vm.logs,
                                  header.Number)).statedb

\* C22 witness: a transaction with two account changes and two logs returned under
\* EIP-658 without EIP-161, after finalise(true).
C22_Witness ==
    /\ pc = "svm_returned"
    /\ pout.err = NoErr
    /\ config.IsEIP658F /\ ~config.IsEIP161F
    /\ Len(vm.changes) = 2
    /\ Len(vm.logs) = 2
    /\ Len(trace) = 9
    /\ trace[5] = [op |-> "Finalise", deleteEmpty |-> TRUE, root |-> <<>>]


\* ---- C23 ----
\* C23: on the SputnikVM path, each transaction being preceded by prepare with its own
\* hash, the logs of a receipt are exactly the logs the VM emitted for that transaction,
\* in the VM's order, each with block_number = header.number and the transaction's
\* hash; no log of another transaction of the block is among them.
C23_ReceiptLogs ==
    IsSvm =>
        \A i \in 1..Len(receipts) :
            LET vmLogs == applied[i].res.logs
                logs == receipts[i].Logs
            IN  /\ Len(logs) = Len(vmLogs)
                /\ \A j \in 1..Len(logs) :
                      /\ logs[j].Address = vmLogs[j].Address
                      /\ logs[j].Topics = vmLogs[j].Topics
                      /\ logs[j].Data = vmLogs[j].Data
                      /\ logs[j].BlockNumber = header.Number
                      /\ logs[j].TxHash = TxHash(txs[i])

\* C23 witness: the first transaction emitted two logs and the second one log, so the
\* state database holds three logs when the second receipt is built.
C23_Witness ==
    /\ IsSvm
    /\ Len(receipts) = 2
    /\ Len(receipts[1].Logs) = 2
    /\ Len(receipts[2].Logs) = 1
    /\ receipts[1].Logs[1].Address # receipts[1].Logs[2].Address
    /\ Len(statedb.logs) = 3


\* ---- C24 ----
\* The recorded calls between the DAO hook and the engine's Finalize: those of the loop.
LoopCalls ==
    SelectSeq(trace, LAMBDA c : c.op \in {"Prepare", "Finalise", "IntermediateRoot"})

\* The number of transactions the loop applied without an error.
NumApplied == Cardinality({i \in 1..Len(applied) : applied[i].err = NoErr})

\* C24: Process applies the transactions in inclusion order: prepare(tx_i.hash,
\* block.hash, i) is called exactly once for each index it reaches, immediately before
\* transaction i is applied and after transaction i-1 has been applied in full; no
\* transaction is applied twice or skipped in a run that succeeds, and none after the
\* first failing one is prepared or applied.
C24_InclusionOrder ==
    /\ Len(applied) = Len(txs)
    /\ Len(CallsOf("Prepare")) = Len(txs)
    /\ \A i \in 1..Len(txs) :
          /\ CallsOf("Prepare")[i] = [op |-> "Prepare", thash |-> TxHash(txs[i]),
                                      bhash |-> BlockHash, ti |-> i - 1]
          /\ applied[i].tx = txs[i]
          /\ applied[i].pre.thash = TxHash(txs[i])
          /\ applied[i].pre.txIndex = i - 1
          /\ (i < Len(txs)) => applied[i].err = NoErr
    /\ Len(receipts) = NumApplied
    /\ \A i \in 1..Len(receipts) : receipts[i].TxHash = TxHash(txs[i])
    /\ Len(LoopCalls) = Len(txs) + Len(FinalisationCalls)
    /\ \A k \in 1..Len(LoopCalls) :
          LoopCalls[k].op = "Prepare" =>
              /\ (k > 1) => LoopCalls[k - 1].op # "Prepare"
              /\ (k < Len(LoopCalls)) => LoopCalls[k + 1].op # "Prepare"
              /\ (k = Len(LoopCalls)) => applied[Len(applied)].err # NoErr
    /\ ReturnedOk => Len(ret.receipts) = Len(txs)
    /\ (Returned /\ ~ReturnedOk) => applied[Len(applied)].err = ret.err

\* C24 witness: the second transaction of a block failed after the first was applied;
\* both were prepared, each once, and the run ended there.
C24_Witness ==
    /\ Returned
    /\ ~ReturnedOk
    /\ Len(txs) = 2
    /\ Len(CallsOf("Prepare")) = 2
    /\ applied[1].err = NoErr
    /\ applied[2].pre.txIndex = 1


\* ---- C25 ----
\* The set of the elements of a sequence.
Range(q) == {q[i] : i \in 1..Len(q)}

\* C25: for every combination of rule flags the patch has: enabled precompiles
\* {1,2,3,4}, plus 5 iff EIP-198, plus 6 and 7 iff EIP-213, plus 8 iff EIP-212;
\* gas_transaction_create 32000 iff EIP-2, else 0; force_code_deposit = ~EIP-2;
\* err_on_call_with_more_gas = ~EIP-150; call_create_l64_after_gas = EIP-150;
\* code_deposit_limit max_code_size iff EIP-170, else 0; initial_nonce 0;
\* initial_create_nonce 1 iff EIP-161, else 0; empty_considered_exists = ~EIP-161;
\* allow_partial_change true.
C25_PatchMapping ==
    (pc = "patch_made") =>
        /\ Range(pout.builder.EnabledContracts)
              = {1, 2, 3, 4} \cup (IF config.IsEIP198F THEN {5} ELSE {})
                             \cup (IF config.IsEIP213F THEN {6, 7} ELSE {})
                             \cup (IF config.IsEIP212F THEN {8} ELSE {})
        /\ pout.builder.GasTransactionCreate = (IF config.IsEIP2F THEN 32000 ELSE 0)
        /\ pout.builder.ForceCodeDeposit = ~config.IsEIP2F
        /\ pout.builder.ErrOnCallWithMoreGas = ~config.IsEIP150
        /\ pout.builder.CallCreateL64AfterGas = config.IsEIP150
        /\ pout.builder.CodeDepositLimit = (IF config.IsEIP170F THEN MaxCodeSize ELSE 0)
        /\ pout.account.InitialNonce = 0
        /\ pout.account.InitialCreateNonce = (IF config.IsEIP161F THEN 1 ELSE 0)
        /\ pout.account.EmptyConsideredExists = ~config.IsEIP161F
        /\ pout.account.AllowPartialChange = TRUE

\* C25 witness: the patch of a configuration with EIP-213 but neither EIP-198 nor
\* EIP-212, before EIP-2, EIP-150, EIP-161 and EIP-170.
C25_Witness ==
    /\ pc = "patch_made"
    /\ config.IsEIP213F /\ ~config.IsEIP198F /\ ~config.IsEIP212F
    /\ ~config.IsEIP2F /\ ~config.IsEIP150 /\ ~config.IsEIP161F /\ ~config.IsEIP170F
    /\ pout.builder.EnabledContracts = <<1, 2, 3, 4, 6, 7>>
    /\ pout.builder.GasTransactionCreate = 0


\* ---- C26 ----
\* C26: the gas pool both appliers share starts at block.gas_limit; after each
\* transaction applied without an error, on either path, the pool holds gas_limit
\* minus the cumulative gas used; a transaction whose gas limit the pool cannot admit
\* is rejected.
C26_GasPool ==
    /\ (pc = "loop" /\ Len(txs) = 0) => gp = header.GasLimit
    /\ (pc = "loop" /\ Len(receipts) > 0)
          => gp = header.GasLimit - SumGasUsed(receipts, Len(receipts))
    /\ \A i \in 1..Len(applied) :
          applied[i].tx.gas > applied[i].gp => applied[i].err # NoErr


\* ---- C27 ----
\* The error the adapter's pre-check or its sender recovery gives for its arguments.
EarlyError ==
    LET err == precheckSputnikVMTransaction(pin.pre, header, pin.tx, pin.usedGas)
    IN  IF err # NoErr THEN err ELSE AsMessageErr(pin.tx)

\* C27: when the pre-check or the sender recovery of the SputnikVM path fails, the
\* adapter returns a nil receipt, gas 0 and the error, and has changed nothing: no VM
\* instance or patch was constructed, no fire or commit call was made, and the state
\* database, its logs, used_gas and the gas pool are as they were at the call.
C27_EarlyFailureChangesNothing ==
    (EarlyError # NoErr) =>
        /\ pc \in {"svm_precheck", "svm_asmessage", "svm_returned"}
        /\ vm = NoVM
        /\ statedb = pin.pre
        /\ usedGas = pin.usedGas
        /\ gp = header.GasLimit
        /\ trace = <<>>
        /\ (pc = "svm_returned") => pout = SvmReturn(NilReceipt, 0, EarlyError)

\* C27 witness: the adapter returned the pre-check's error for a nonce that is too high.
C27_Witness ==
    /\ pc = "svm_returned"
    /\ pout.err = ErrNonceTooHigh
    /\ pout.receipt = NilReceipt
    /\ vm.vmNew = 0

\* A second case of C27: the sender could not be recovered; the pre-check's own
\* tx.AsMessage (part_000:143-146) meets the failure before the adapter's (202-205).
C27_WitnessAsMessage ==
    /\ pc = "svm_returned"
    /\ pout.err = ErrInvalidSig
    /\ vm.patchNew = 0


\* ---- C28 ----
\* The adapter is in its request loop, or has left it with the account changes not yet
\* fetched.
SvmInLoop == pc \in {"svm_fire", "svm_commit", "svm_changes"}

\* C28: during the request loop the host only reads the state database: while the loop
\* runs the state database, its logs and the used gas are those of the call, whatever
\* was requested and committed; every mutation happens after the loop has exited.
C28_LoopOnlyReads ==
    /\ SvmInLoop =>
          /\ statedb = pin.pre
          /\ usedGas = pin.usedGas
          /\ gp = header.GasLimit
          /\ trace = <<>>
    /\ (statedb # pin.pre \/ usedGas # pin.usedGas \/ trace # <<>>)
          => (SvmPastLoop /\ vm.sawNone /\ pc # "svm_changes")

\* C28 witness: the loop is about to fire again after it answered a storage request
\* for the DAO account from the state database, which is as it was at the call.
C28_Witness ==
    /\ pc = "svm_fire"
    /\ vm.committed
    /\ vm.pending.typ = "account_storage"
    /\ vm.reply = <<[op |-> "CommitAccountStorage", address |-> "dao",
                     key |-> HashModulus - 1, value |-> 5]>>
    /\ statedb = pin.pre


\* ---- C29 ----
\* C29: the adapter's pre-check rejects with gas_limit_reached every transaction for
\* which used_gas + tx.gas_limit, taken as an unbounded sum, exceeds header.gas_limit,
\* also when the 64-bit sum wraps: no transaction with a matching nonce and a balance
\* that covers its gas is admitted with such a sum.
C29_GasLimitReached ==
    IsSvm =>
        \A i \in 1..Len(applied) :
            LET a == applied[i]
            IN  (/\ a.tx.sigOk
                 /\ GetNonce(a.pre, a.tx.from) = a.tx.nonce
                 /\ GetBalance(a.pre, a.tx.from) >= a.tx.gas * a.tx.gasPrice
                 /\ a.usedGas + a.tx.gas > header.GasLimit)
                    => a.err = ErrGasLimitReached

\* Without a wrap of the 64-bit sum the pre-check rejects as C29 says.
C29_NoWrapCase ==
    IsSvm =>
        \A i \in 1..Len(applied) :
            LET a == applied[i]
            IN  (/\ a.tx.sigOk
                 /\ GetNonce(a.pre, a.tx.from) = a.tx.nonce
                 /\ GetBalance(a.pre, a.tx.from) >= a.tx.gas * a.tx.gasPrice
                 /\ a.usedGas + a.tx.gas > header.GasLimit
                 /\ a.usedGas + a.tx.gas <= MaxUint64)
                    => a.err = ErrGasLimitReached


\* ---- C30 ----
\* C30: for every blockhash(n) request of the VM, n a 256-bit word, the hash the host
\* commits is zero whenever n >= header.number or n < header.number - 256, also when n
\* does not fit 64 bits, and the number given to commit_blockhash is the requested n.
C30_BlockhashWindow ==
    \A i \in 1..Len(vm.reply) :
        vm.reply[i].op = "CommitBlockhash" =>
            /\ vm.reply[i].number = vm.pending.number
            /\ (\/ vm.reply[i].number >= header.Number
                \/ vm.reply[i].number < header.Number - 256)
                  => vm.reply[i].hash = ZeroHash

\* For requested numbers that fit 64 bits the committed hash is as C30 says.
C30_FittingNumbers ==
    \A i \in 1..Len(vm.reply) :
        (vm.reply[i].op = "CommitBlockhash" /\ vm.reply[i].number <= MaxUint64) =>
            /\ vm.reply[i].number = vm.pending.number
            /\ vm.reply[i].hash = GetHash(header, vm.reply[i].number)
            /\ (vm.reply[i].number >= header.Number) => vm.reply[i].hash = ZeroHash


\* ---- C31 ----
\* The storage keys the change c lists, as the state database files them.
ListedKeys(c) == {BigToHash(c.storage[i].Key) : i \in 1..Len(c.storage)}

\* C31: applying a full or a create account change writes only the listed account:
\* the storage keys of that address that the change does not list keep their values (a
\* create does not clear the storage already at the address), and balance, nonce, code
\* and storage of every other address are unchanged.
C31_FullCreateFrame ==
    [][ (/\ pc = "svm_change"
         /\ pc' = "svm_change"
         /\ vm.next <= Len(vm.changes)
         /\ vm.changes[vm.next].typ \in {"full", "create"})
        => LET c == vm.changes[vm.next]
           IN  /\ \A k \in StorageKeys \ ListedKeys(c) :
                     statedb'.acct[c.address].storage[k] = statedb.acct[c.address].storage[k]
               /\ \A a \in Addr \ {c.address} :
                     /\ statedb'.acct[a].balance = statedb.acct[a].balance
                     /\ statedb'.acct[a].nonce = statedb.acct[a].nonce
                     /\ statedb'.acct[a].code = statedb.acct[a].code
                     /\ statedb'.acct[a].storage = statedb.acct[a].storage
      ]_vars

\* C31 witness: a create was applied at the DAO account, which held a stored word under
\* a key the change does not list; the word is still there next to the listed one.
C31_Witness ==
    /\ pc = "svm_change"
    /\ vm.next = 2
    /\ vm.changes[1].typ = "create"
    /\ vm.changes[1].address = "dao"
    /\ pin.pre.acct["dao"].storage[HashModulus - 1] = 5
    /\ (HashModulus - 1) \notin ListedKeys(vm.changes[1])
    /\ statedb.acct["dao"].storage[HashModulus - 1] = 5
    /\ statedb.acct["dao"].storage[0] = 9
    /\ statedb.acct["dao"].code = "code"


\* ---- C32 ----
\* The state database the hard-fork hook leaves for the first transaction.
StateAfterHook ==
    IF IsDAOForkBlock(config, header) THEN ApplyDAOHardFork(InitStateDB) ELSE InitStateDB

\* The state database the applier of transaction i left, finalisation included.
StateLeftBy(i) ==
    ApplyTransaction(config, header, applied[i].pre, applied[i].gp, applied[i].usedGas,
                     applied[i].tx, applied[i].res).statedb

\* C32: Process does not undo its own effects when it fails: if transaction k returns
\* an error, the state database on return holds the mutations of the DAO hook (when it
\* fired) and of the transactions before k exactly as they were finalised, and no
\* mutation of transaction k when the failure was a pre-check failure of the
\* external-VM path (the state is the one Prepare set up for transaction k).
C32_NoRollback ==
    (Returned /\ ~ReturnedOk) =>
        LET k == Len(applied)
        IN  /\ k >= 1
            /\ applied[1].pre = PrepareTx(StateAfterHook, txs[1], 0)
            /\ \A i \in 2..k : applied[i].pre = PrepareTx(StateLeftBy(i - 1), txs[i], i - 1)
            /\ statedb = StateLeftBy(k)
            /\ IsSvm => statedb = applied[k].pre
            /\ CallsOf("engine.Finalize") = <<>>

\* C32 witness: on the DAO fork block the adapter applied the first transaction and
\* refused the second in its pre-check; the state returned has the DAO account drained
\* and the sender's nonce advanced by the first transaction.
C32_Witness ==
    /\ Returned
    /\ ~ReturnedOk
    /\ IsSvm
    /\ Len(applied) = 2
    /\ ~applied[2].ranVM
    /\ CallsOf("ApplyDAOHardFork") # <<>>
    /\ GetBalance(statedb, "dao") = 0
    /\ GetBalance(InitStateDB, "dao") = DaoBalance
    /\ GetNonce(statedb, "sender") = 1

============================================================================
